---- MODULE Spec2Model ----
(***************************************************************************)
(* Model of the keystone authentication middleware (middleware.go).        *)
(*                                                                         *)
(* One gate instance (handler) serves requests in request slots.  Each     *)
(* request walks through ServeHTTP: sanitize, read the token, look the     *)
(* token up in the cache, validate it against the identity authority,      *)
(* write the cache, project the identity record onto the headers, and run  *)
(* the deferred downstream handler.  ServeHTTP is split where it calls a   *)
(* collaborator or reads the clock: TokenCache.Get, client.Do followed by  *)
(* token.Valid (first clock reading), time.Now on line 95 followed by      *)
(* TokenCache.Set (second clock reading), the deferred handler.            *)
(*                                                                         *)
(* Time is counted in ticks, TicksPerSecond ticks to a second, so that     *)
(* time.Time keeps a sub-second part and Unix() truncates it.              *)
(***************************************************************************)
EXTENDS Integers, Sequences, FiniteSets, TLC

\* ------------------------------------------------------------------ bounds
NumReq == 2            \* request slots served at the same time
MaxTime == 3           \* the clock runs from 0 to MaxTime ticks
TicksPerSecond == 2    \* resolution of the clock
ShortCacheTime == 2    \* a configured Auth.CacheTime, in ticks
FarExpiry == 9         \* an expires_at beyond the end of the run, in ticks

\* ------------------------------------------------------- program constants
DefaultCacheSeconds == 300   \* 5 * time.Minute
StatusOK == 200              \* http.StatusOK
StatusErrorFloor == 400      \* r.StatusCode >= 400

Reqs == 1..NumReq

\* Optional values (Go pointers that may be nil): <<>> is nil, <<v>> is &v.
None == <<>>
Some(v) == <<v>>

\* ------------------------------------------------------------- http.Header
\* A header map is a function from the names present to their value.
NoHeaders == [n \in {} |-> ""]

Get(h, n) == IF n \in DOMAIN h THEN h[n] ELSE ""

Set(h, n, v) == [m \in DOMAIN h \cup {n} |-> IF m = n THEN v ELSE h[m]]

Del(h, n) == [m \in DOMAIN h \ {n} |-> h[m]]

RECURSIVE DelAll(_, _)
DelAll(h, names) ==
  IF names = <<>> THEN h ELSE DelAll(Del(h, Head(names)), Tail(names))

\* for k, v := range m { req.Header.Set(k, v) }
SetAll(h, m) == [n \in DOMAIN h \cup DOMAIN m |-> IF n \in DOMAIN m THEN m[n] ELSE h[n]]

\* The names filterIncomingHeaders deletes, in the order of the code.
FilterList ==
  << "X-Identity-Status", "X-Service-Identity-Status",
     "X-Domain-Id", "X-Service-Domain-Id",
     "X-Domain-Name", "X-Service-Domain-Name",
     "X-Project-Id", "X-Service-Project-Id",
     "X-Project-Name", "X-Service-Project-Name",
     "X-Project-Domain-Id", "X-Service-Project-Domain-Id",
     "X-Project-Domain-Name", "X-Service-Project-Domain-Name",
     "X-User-Id", "X-Service-User-Id",
     "X-User-Name", "X-Service-User-Name",
     "X-User-Domain-Id", "X-Service-User-Domain-Id",
     "X-User-Domain-Name", "X-Service-User-Domain-Name",
     "X-Roles", "X-Service-Roles",
     "X-Servie-Catalog",
     "X-Tenant-Id", "X-Tenant", "X-User", "X-Role" >>

\* A sanitizer that forgets the line deleting X-User-Id.
filterKeepsUserId(h) == DelAll(h, SelectSeq(FilterList, LAMBDA n : n # "X-User-Id"))

\* A sanitizer that stops after the first listed header it finds and deletes.
filterStopsAfterFirst(h) ==
  LET present == SelectSeq(FilterList, LAMBDA n : n \in DOMAIN h)
  IN IF present = <<>> THEN h ELSE Del(h, present[1])

filterIncomingHeaders(h) == DelAll(h, FilterList)

\* ---------------------------------------------------------------- the clock
\* time.Time.Unix(): whole seconds, the sub-second part dropped.
Unix(t) == t \div TicksPerSecond

\* ------------------------------------------------------- the identity record
\* type token: ExpiresAt, IssuedAt, User (a value), Project, Domain and Roles
\* (pointers: None is nil).  project.Domain is a pointer as well.
Tokens == {"t1", "t2"}

UserOf(tk) ==
  [ID |-> "u-" \o tk, Name |-> "user-" \o tk, DomainID |-> "o-testdomain",
   Domain |-> [ID |-> "o-testdomain", Name |-> "testdomain"]]

ProjectWithDomain ==
  [ID |-> "p-1", DomainID |-> "o-projdomain", Name |-> "Arc",
   Domain |-> Some([ID |-> "o-projdomain", Name |-> "projdomain"])]

ProjectWithoutDomain ==
  [ID |-> "p-1", DomainID |-> "o-projdomain", Name |-> "Arc", Domain |-> None]

DomainScope == [ID |-> "o-scope", Name |-> "scopedomain"]

Scopes ==
  { [Project |-> None, Domain |-> None],
    [Project |-> Some(ProjectWithDomain), Domain |-> None],
    [Project |-> Some(ProjectWithoutDomain), Domain |-> None],
    [Project |-> None, Domain |-> Some(DomainScope)],
    [Project |-> Some(ProjectWithDomain), Domain |-> Some(DomainScope)] }

RoleLists ==
  { None,
    Some(<<>>),
    Some(<<[ID |-> "r-member", Name |-> "member"]>>),
    Some(<<[ID |-> "r-member", Name |-> "member"],
           [ID |-> "r-blafasel", Name |-> "blafasel"]>>) }

Token(tk, sc, roles, issued, expires) ==
  [ExpiresAt |-> expires, IssuedAt |-> issued, User |-> UserOf(tk),
   Project |-> sc.Project, Domain |-> sc.Domain, Roles |-> roles]

\* Validity windows <<issued_at, expires_at>> the authority hands out, in ticks.
Windows == ({0, 1, 2} \X {1, 3, FarExpiry})

BaseWindow == <<0, FarExpiry>>
BaseScope == [Project |-> None, Domain |-> None]

BaseToken(tk) == Token(tk, BaseScope, None, BaseWindow[1], BaseWindow[2])

\* A record with roles whose project lacks the embedded domain object.
RolesWithoutProjectDomain(tk) ==
  Token(tk, [Project |-> Some(ProjectWithoutDomain), Domain |-> None],
        Some(<<[ID |-> "r-member", Name |-> "member"]>>),
        BaseWindow[1], BaseWindow[2])

\* The records the authority returns for token tk.  Valid() reads only the
\* window and Headers() the scope and then the roles, so the records vary one
\* of the three at a time, plus one record whose scope stops Headers() before
\* it reaches the roles.  The second token resolves to two shapes.
Records(tk) ==
  IF tk = "t1"
  THEN { Token(tk, sc, None, BaseWindow[1], BaseWindow[2]) : sc \in Scopes }
       \cup { Token(tk, BaseScope, ro, BaseWindow[1], BaseWindow[2]) : ro \in RoleLists }
       \cup { RolesWithoutProjectDomain(tk) }
       \cup { Token(tk, BaseScope, None, w[1], w[2]) : w \in Windows }
  ELSE { BaseToken(tk),
         Token(tk, [Project |-> Some(ProjectWithDomain), Domain |-> None],
               Some(<<[ID |-> "r-member", Name |-> "member"]>>), 0, 3) }

\* A Valid that compares the time values and not their whole seconds.
ValidExact(tok, t) == tok.IssuedAt <= t /\ t < tok.ExpiresAt

\* func (t token) Valid() bool, with the clock reading t
Valid(tok, t) == Unix(tok.IssuedAt) <= Unix(t) /\ Unix(t) < Unix(tok.ExpiresAt)

\* strings.Join(names, ",")
RECURSIVE Join(_)
Join(names) ==
  IF names = <<>> THEN ""
  ELSE IF Len(names) = 1 THEN names[1]
  ELSE names[1] \o "," \o Join(Tail(names))

RoleNames(roles) == [i \in 1..Len(roles) |-> roles[i].Name]

\* func (t token) Headers(): project.Domain.Name on line 168 dereferences a
\* nil pointer when the project carries no domain object; Headers panics.
HeadersPanics(tok) == tok.Project # None /\ tok.Project[1].Domain = None

UserHeaders(tok) ==
  [n \in {"X-User-Id", "X-User-Name", "X-User-Domain-Id", "X-User-Domain-Name"} |->
     CASE n = "X-User-Id" -> tok.User.ID
       [] n = "X-User-Name" -> tok.User.Name
       [] n = "X-User-Domain-Id" -> tok.User.DomainID
       [] n = "X-User-Domain-Name" -> tok.User.Domain.Name]

ProjectHeaders(tok) ==
  IF tok.Project = None THEN NoHeaders
  ELSE [n \in {"X-Project-Name", "X-Project-Id",
               "X-Project-Domain-Name", "X-Project-Domain-Id"} |->
     CASE n = "X-Project-Name" -> tok.Project[1].Name
       [] n = "X-Project-Id" -> tok.Project[1].ID
       [] n = "X-Project-Domain-Name" -> tok.Project[1].Domain[1].Name
       [] n = "X-Project-Domain-Id" -> tok.Project[1].DomainID]

DomainHeaders(tok) ==
  IF tok.Domain = None THEN NoHeaders
  ELSE [n \in {"X-Domain-Id", "X-Domain-Name"} |->
     CASE n = "X-Domain-Id" -> tok.Domain[1].ID
       [] n = "X-Domain-Name" -> tok.Domain[1].Name]

RolesHeaders(tok) ==
  IF tok.Roles = None THEN NoHeaders
  ELSE [n \in {"X-Roles"} |-> Join(RoleNames(tok.Roles[1]))]

\* The map Headers returns when it does not panic.
Headers(tok) ==
  SetAll(SetAll(SetAll(UserHeaders(tok), ProjectHeaders(tok)), DomainHeaders(tok)),
         RolesHeaders(tok))

\* ------------------------------------------------------------ the validator
\* What the identity authority answers to GET /auth/tokens: conn is the
\* outcome of http.NewRequest and client.Do, status the response status, and
\* the body either does not decode as authResponse or decodes to an envelope
\* with an optional error object and an optional token object.
Body(decodes, error, token) == [decodes |-> decodes, error |-> error, token |-> token]

Garbage == Body(FALSE, FALSE, None)

Response(conn, status, body) == [conn |-> conn, status |-> status, body |-> body]

Responses(tk) ==
  { Response(c, StatusOK, Garbage) : c \in {"newrequest", "do"} }
  \cup { Response("ok", StatusOK, b) :
           b \in {Garbage, Body(TRUE, FALSE, None)}
                 \cup { Body(TRUE, FALSE, Some(tok)) : tok \in Records(tk) }
                 \cup { Body(TRUE, TRUE, tk2) : tk2 \in {None, Some(BaseToken(tk))} } }
  \cup { Response("ok", st, b) :
           st \in {201, 399, StatusErrorFloor},
           b \in {Body(TRUE, TRUE, None), Body(TRUE, FALSE, Some(BaseToken(tk)))} }
  \cup { Response("ok", 201, Garbage) }

Failure(kind) == [tok |-> None, err |-> kind]

\* A validate that skips the check of the envelope's error object (line 215).
validateIgnoresError(resp, t) ==
  IF resp.conn = "newrequest" THEN Failure("NewRequest")
  ELSE IF resp.conn = "do" THEN Failure("Do")
  ELSE IF resp.status >= StatusErrorFloor THEN Failure("Status>=400")
  ELSE IF ~resp.body.decodes THEN Failure("Decode")
  ELSE IF resp.status # StatusOK THEN Failure("Status!=200")
  ELSE IF resp.body.token = None THEN Failure("NoToken")
  ELSE IF ~Valid(resp.body.token[1], t) THEN Failure("NotValid")
  ELSE [tok |-> resp.body.token, err |-> ""]

\* func (h *handler) validate(token string) (*token, error), the authority
\* answering resp and the clock reading t when token.Valid runs.
validate(resp, t) ==
  IF resp.conn = "newrequest" THEN Failure("NewRequest")
  ELSE IF resp.conn = "do" THEN Failure("Do")
  ELSE IF resp.status >= StatusErrorFloor THEN Failure("Status>=400")
  ELSE IF ~resp.body.decodes THEN Failure("Decode")
  ELSE IF resp.body.error THEN Failure("Error")
  ELSE IF resp.status # StatusOK THEN Failure("Status!=200")
  ELSE IF resp.body.token = None THEN Failure("NoToken")
  ELSE IF ~Valid(resp.body.token[1], t) THEN Failure("NotValid")
  ELSE [tok |-> resp.body.token, err |-> ""]

\* ---------------------------------------------------------------- the cache
\* Auth.TokenCache: "nil" is no cache, "ttl" a cache that drops an entry when
\* its ttl has elapsed, "mock" the cacheMock of the tests, which ignores the
\* ttl.  A cache maps each key to None or to an entry.
CacheKinds == {"nil", "ttl", "mock"}

EmptyCache == [k \in Tokens |-> None]

Entry(value, expires) == [value |-> value, expires |-> expires]

\* Cache.Set(key, value, ttl) at clock reading t
CacheSet(kind, c, k, v, ttl, t) ==
  IF kind = "mock" THEN [c EXCEPT ![k] = Some(Entry(v, None))]
  ELSE IF ttl > 0 THEN [c EXCEPT ![k] = Some(Entry(v, Some(t + ttl)))]
  ELSE [c EXCEPT ![k] = None]

\* Cache.Get(key, &value): the entry found, or None
CacheGet(c, k) == c[k]

\* The entries of c that are still alive at clock reading t.
Evict(c, t) ==
  [k \in DOMAIN c |->
     IF c[k] # None /\ c[k][1].expires # None /\ c[k][1].expires[1] <= t
     THEN None ELSE c[k]]

\* A ttl bounded by the token's whole lifetime instead of what is left of it.
TTLFromLifetime(ct, tok, t) ==
  LET expiresIn == tok.ExpiresAt - tok.IssuedAt
  IN IF expiresIn < ct THEN expiresIn ELSE ct

\* A ttl that is always the configured cache time.
TTLIgnoresExpiry(ct, tok, t) == ct

\* ttl := h.CacheTime; if expiresIn := ExpiresAt.Sub(now); expiresIn < CacheTime { ttl = expiresIn }
TTL(ct, tok, t) ==
  LET expiresIn == tok.ExpiresAt - t
  IN IF expiresIn < ct THEN expiresIn ELSE ct

\* Auth.Handler: a CacheTime of 0 becomes 5 minutes.
HandlerCacheTime(cfg) == IF cfg = 0 THEN DefaultCacheSeconds * TicksPerSecond ELSE cfg

\* A projection that forgets line 102 and leaves the status as it was.
ConfirmKeepsStatus(h, tok) == IF HeadersPanics(tok) THEN h ELSE SetAll(h, Headers(tok))

\* Lines 102-105: the status is set first, then Headers() is called; when it
\* panics the status stays Confirmed and nothing is projected.
Confirm(h, tok) ==
  LET h1 == Set(h, "X-Identity-Status", "Confirmed")
  IN IF HeadersPanics(tok) THEN h1 ELSE SetAll(h1, Headers(tok))

\* ------------------------------------------------------ inbound requests
\* The identity-assertion headers a client may try to plant.
AssertionBases ==
  { "Identity-Status", "Domain-Id", "Domain-Name", "Project-Id", "Project-Name",
    "Project-Domain-Id", "Project-Domain-Name", "User-Id", "User-Name",
    "User-Domain-Id", "User-Domain-Name", "Roles" }

AssertionHeaders ==
  { "X-" \o b : b \in AssertionBases } \cup { "X-Service-" \o b : b \in AssertionBases }
  \cup { "X-Service-Catalog", "X-Tenant-Id", "X-Tenant", "X-User", "X-Role" }

\* The headers the gate writes itself (README, Headers).
ProjectionHeaders ==
  { "X-User-Id", "X-User-Name", "X-User-Domain-Id", "X-User-Domain-Name",
    "X-Project-Name", "X-Project-Id", "X-Project-Domain-Name", "X-Project-Domain-Id",
    "X-Domain-Id", "X-Domain-Name", "X-Roles" }

GateHeaders == ProjectionHeaders \cup {"X-Identity-Status"}

ClientValue(n) == IF n = "X-Identity-Status" THEN "Confirmed" ELSE "client-value"

ClientHeaders(names) == [n \in names |-> ClientValue(n)]

\* X-Auth-Token as sent: not sent, sent empty, or one of the tokens.
TokenChoices == {None, Some("")} \cup { Some(tk) : tk \in Tokens }

WithToken(h, tk) == IF tk = None THEN h ELSE Set(h, "X-Auth-Token", tk[1])

\* The header maps of the requests that arrive: the whole identity set planted
\* beside a header outside of it, with every token choice; no header but the
\* token; and each identity header, and the name line 269 deletes, planted
\* alone on a request without token.
InboundRequests ==
  { WithToken(ClientHeaders(AssertionHeaders \cup {"Accept"}), tk) : tk \in TokenChoices }
  \cup { WithToken(NoHeaders, tk) : tk \in {None, Some("t1")} }
  \cup { ClientHeaders({n}) : n \in AssertionHeaders \cup {"X-Servie-Catalog"} }

Restrict(h, names) == [n \in DOMAIN h \cap names |-> h[n]]

\* ------------------------------------------------------------------- state
VARIABLES
  now,         \* the clock, in ticks
  tokenCache,  \* Auth.TokenCache: the kind of cache configured
  cacheTime,   \* Auth.CacheTime after Handler(), in ticks
  cache,       \* the contents of the cache
  written,     \* history: per key, the gate headers delivered by the request that wrote the entry
  rq,          \* per request slot: position in ServeHTTP and its locals
  obs          \* per request slot, history: the collaborator calls it made

vars == <<now, tokenCache, cacheTime, cache, written, rq, obs>>

IdleRequest ==
  [pc |-> "idle", inbound |-> NoHeaders, header |-> NoHeaders, authToken |-> "",
   context |-> None, err |-> ""]

NoObs ==
  [hit |-> FALSE, cachedAtGet |-> FALSE, seen |-> None, resp |-> None, validAt |-> None,
   lastSet |-> None, confirmedAt |-> None, panicked |-> FALSE,
   nGet |-> 0, nSet |-> 0, nValidate |-> 0, nServe |-> 0]

\* The configurations of Auth: <<TokenCache, CacheTime>>.
Configs ==
  { <<"nil", 0>>, <<"ttl", 0>>, <<"ttl", ShortCacheTime>>, <<"mock", ShortCacheTime>> }

Init ==
  /\ now = 0
  /\ \E cfg \in Configs : tokenCache = cfg[1] /\ cacheTime = HandlerCacheTime(cfg[2])
  /\ cache = EmptyCache
  /\ written = [k \in Tokens |-> None]
  /\ rq = [r \in Reqs |-> IdleRequest]
  /\ obs = [r \in Reqs |-> NoObs]

\* A ServeHTTP without the defer of line 69, whose early return on an empty
\* token leaves without calling the downstream handler.
ReceiveEarlyReturn(r, h) ==
  /\ rq[r].pc = "idle"
  /\ LET hd == Set(filterIncomingHeaders(h), "X-Identity-Status", "Invalid")
         tk == Get(hd, "X-Auth-Token")
     IN rq' = [rq EXCEPT ![r] = [pc |-> IF tk = "" THEN "done" ELSE "lookup",
                                 inbound |-> h, header |-> hd, authToken |-> tk,
                                 context |-> None, err |-> ""]]
  /\ obs' = [obs EXCEPT ![r] = NoObs]
  /\ UNCHANGED <<now, tokenCache, cacheTime, cache, written>>

\* ServeHTTP lines 67-73: sanitize, default status, read the token.
Receive(r, h) ==
  /\ rq[r].pc = "idle"
  /\ LET hd == Set(filterIncomingHeaders(h), "X-Identity-Status", "Invalid")
         tk == Get(hd, "X-Auth-Token")
     IN rq' = [rq EXCEPT ![r] = [pc |-> IF tk = "" THEN "return" ELSE "lookup",
                                 inbound |-> h, header |-> hd, authToken |-> tk,
                                 context |-> None, err |-> ""]]
  /\ obs' = [obs EXCEPT ![r] = NoObs]
  /\ UNCHANGED <<now, tokenCache, cacheTime, cache, written>>

\* A lookup that reads the cache but never takes the cached record (line 81
\* missing), so that every request goes on to the validator.
LookupDropsHit(r) ==
  /\ rq[r].pc = "lookup"
  /\ rq' = [rq EXCEPT ![r] = [@ EXCEPT !.pc = "validate"]]
  /\ obs' = [obs EXCEPT ![r] =
              [@ EXCEPT !.nGet = IF tokenCache = "nil" THEN @ ELSE @ + 1,
                        !.cachedAtGet = tokenCache # "nil" /\ cache[rq[r].authToken] # None,
                        !.seen = IF tokenCache = "nil" THEN None ELSE written[rq[r].authToken]]]
  /\ UNCHANGED <<now, tokenCache, cacheTime, cache, written>>

\* A lookup without the nil check of line 77: the cache is asked even when
\* none is configured.
LookupWithoutNilCheck(r) ==
  /\ rq[r].pc = "lookup"
  /\ LET found == CacheGet(cache, rq[r].authToken)
     IN /\ rq' = [rq EXCEPT ![r] =
                    IF found = None THEN [@ EXCEPT !.pc = "validate"]
                    ELSE [@ EXCEPT !.pc = "return",
                                   !.context = Some(found[1].value),
                                   !.header = Confirm(@, found[1].value)]]
        /\ obs' = [obs EXCEPT ![r] =
                    [@ EXCEPT !.nGet = @ + 1,
                              !.cachedAtGet = cache[rq[r].authToken] # None,
                              !.seen = written[rq[r].authToken],
                              !.hit = found # None,
                              !.confirmedAt = IF found = None THEN None ELSE Some(now),
                              !.panicked = found # None /\ HeadersPanics(found[1].value)]]
  /\ UNCHANGED <<now, tokenCache, cacheTime, cache, written>>

\* A lookup that stores the record again on a hit, with the full cache time.
LookupRefreshesHit(r) ==
  /\ rq[r].pc = "lookup"
  /\ LET key == rq[r].authToken
         found == IF tokenCache = "nil" THEN None ELSE CacheGet(cache, key)
     IN /\ rq' = [rq EXCEPT ![r] =
                    IF found = None THEN [@ EXCEPT !.pc = "validate"]
                    ELSE [@ EXCEPT !.pc = "return",
                                   !.context = Some(found[1].value),
                                   !.header = Confirm(@, found[1].value)]]
        /\ obs' = [obs EXCEPT ![r] =
                    [@ EXCEPT !.nGet = IF tokenCache = "nil" THEN @ ELSE @ + 1,
                              !.cachedAtGet = tokenCache # "nil" /\ cache[key] # None,
                              !.seen = IF tokenCache = "nil" THEN None ELSE written[key],
                              !.hit = found # None,
                              !.confirmedAt = IF found = None THEN None ELSE Some(now),
                              !.panicked = found # None /\ HeadersPanics(found[1].value),
                              !.nSet = IF found = None THEN @ ELSE @ + 1,
                              !.lastSet = IF found = None THEN @
                                          ELSE Some([key |-> key, value |-> found[1].value,
                                                     ttl |-> cacheTime, at |-> now])]]
        /\ cache' = IF found = None THEN cache
                    ELSE CacheSet(tokenCache, cache, key, found[1].value, cacheTime, now)
  /\ UNCHANGED <<now, tokenCache, cacheTime, written>>

\* A lookup that takes a cached record only while its validity window holds
\* the clock reading, and otherwise goes on to the validator.
LookupChecksWindow(r) ==
  /\ rq[r].pc = "lookup"
  /\ LET got == IF tokenCache = "nil" THEN None ELSE CacheGet(cache, rq[r].authToken)
         found == IF got # None /\ Valid(got[1].value, now) THEN got ELSE None
     IN /\ rq' = [rq EXCEPT ![r] =
                    IF found = None THEN [@ EXCEPT !.pc = "validate"]
                    ELSE [@ EXCEPT !.pc = "return",
                                   !.context = Some(found[1].value),
                                   !.header = Confirm(@, found[1].value)]]
        /\ obs' = [obs EXCEPT ![r] =
                    [@ EXCEPT !.nGet = IF tokenCache = "nil" THEN @ ELSE @ + 1,
                              !.cachedAtGet = tokenCache # "nil" /\ cache[rq[r].authToken] # None,
                              !.seen = IF tokenCache = "nil" THEN None ELSE written[rq[r].authToken],
                              !.hit = found # None,
                              !.confirmedAt = IF found = None THEN None ELSE Some(now),
                              !.panicked = found # None /\ HeadersPanics(found[1].value)]]
  /\ UNCHANGED <<now, tokenCache, cacheTime, cache, written>>

\* ServeHTTP lines 75-83, and on a hit lines 102-105.
Lookup(r) ==
  /\ rq[r].pc = "lookup"
  /\ LET found == IF tokenCache = "nil" THEN None ELSE CacheGet(cache, rq[r].authToken)
     IN /\ rq' = [rq EXCEPT ![r] =
                    IF found = None THEN [@ EXCEPT !.pc = "validate"]
                    ELSE [@ EXCEPT !.pc = "return",
                                   !.context = Some(found[1].value),
                                   !.header = Confirm(@, found[1].value)]]
        /\ obs' = [obs EXCEPT ![r] =
                    [@ EXCEPT !.nGet = IF tokenCache = "nil" THEN @ ELSE @ + 1,
                              !.cachedAtGet = tokenCache # "nil" /\ cache[rq[r].authToken] # None,
                              !.seen = IF tokenCache = "nil" THEN None ELSE written[rq[r].authToken],
                              !.hit = found # None,
                              !.confirmedAt = IF found = None THEN None ELSE Some(now),
                              !.panicked = found # None /\ HeadersPanics(found[1].value)]]
  /\ UNCHANGED <<now, tokenCache, cacheTime, cache, written>>

\* ServeHTTP lines 84-91, and without a cache lines 102-105.
Validate(r, resp) ==
  /\ rq[r].pc = "validate"
  /\ LET res == validate(resp, now)
     IN /\ rq' = [rq EXCEPT ![r] =
                    IF res.tok = None THEN [@ EXCEPT !.pc = "return", !.err = res.err]
                    ELSE IF tokenCache # "nil" THEN [@ EXCEPT !.pc = "set", !.context = res.tok]
                    ELSE [@ EXCEPT !.pc = "return", !.context = res.tok,
                                   !.header = Confirm(@, res.tok[1])]]
        /\ obs' = [obs EXCEPT ![r] =
                    [@ EXCEPT !.nValidate = @ + 1, !.resp = Some(resp), !.validAt = Some(now),
                              !.confirmedAt = IF res.tok # None /\ tokenCache = "nil"
                                              THEN Some(now) ELSE None,
                              !.panicked = res.tok # None /\ tokenCache = "nil"
                                           /\ HeadersPanics(res.tok[1])]]
  /\ UNCHANGED <<now, tokenCache, cacheTime, cache, written>>

\* A cache write that stores every record under one fixed key, not under the
\* request's own token.
CacheWriteSharedKey(r) ==
  /\ rq[r].pc = "set"
  /\ LET tok == rq[r].context[1]
         ttl == TTL(cacheTime, tok, now)
         key == "t1"
         hd == Confirm(rq[r].header, tok)
         c2 == CacheSet(tokenCache, cache, key, tok, ttl, now)
     IN /\ cache' = c2
        /\ written' = [written EXCEPT ![key] =
                         IF c2[key] = None THEN None ELSE Some(Restrict(hd, GateHeaders))]
        /\ rq' = [rq EXCEPT ![r] = [@ EXCEPT !.pc = "return", !.header = hd]]
        /\ obs' = [obs EXCEPT ![r] =
                    [@ EXCEPT !.nSet = @ + 1,
                              !.lastSet = Some([key |-> key, value |-> tok, ttl |-> ttl, at |-> now]),
                              !.confirmedAt = Some(now),
                              !.panicked = HeadersPanics(tok)]]
  /\ UNCHANGED <<now, tokenCache, cacheTime>>

\* ServeHTTP lines 92-105: the second clock reading, the cache write, the projection.
CacheWrite(r) ==
  /\ rq[r].pc = "set"
  /\ LET tok == rq[r].context[1]
         ttl == TTL(cacheTime, tok, now)
         key == rq[r].authToken
         hd == Confirm(rq[r].header, tok)
         c2 == CacheSet(tokenCache, cache, key, tok, ttl, now)
     IN /\ cache' = c2
        /\ written' = [written EXCEPT ![key] =
                         IF c2[key] = None THEN None ELSE Some(Restrict(hd, GateHeaders))]
        /\ rq' = [rq EXCEPT ![r] = [@ EXCEPT !.pc = "return", !.header = hd]]
        /\ obs' = [obs EXCEPT ![r] =
                    [@ EXCEPT !.nSet = @ + 1,
                              !.lastSet = Some([key |-> key, value |-> tok, ttl |-> ttl, at |-> now]),
                              !.confirmedAt = Some(now),
                              !.panicked = HeadersPanics(tok)]]
  /\ UNCHANGED <<now, tokenCache, cacheTime>>

\* The deferred h.handler.ServeHTTP(w, req) of line 69: runs when ServeHTTP
\* returns or panics.
Delegate(r) ==
  /\ rq[r].pc = "return"
  /\ rq' = [rq EXCEPT ![r] = [@ EXCEPT !.pc = "done"]]
  /\ obs' = [obs EXCEPT ![r] = [@ EXCEPT !.nServe = @ + 1]]
  /\ UNCHANGED <<now, tokenCache, cacheTime, cache, written>>

\* The request is over; its slot takes the next request.
Finish(r) ==
  /\ rq[r].pc = "done"
  /\ rq' = [rq EXCEPT ![r] = IdleRequest]
  /\ obs' = [obs EXCEPT ![r] = NoObs]
  /\ UNCHANGED <<now, tokenCache, cacheTime, cache, written>>

\* The clock advances; a "ttl" cache drops the entries whose ttl has elapsed.
Tick ==
  /\ now < MaxTime
  /\ now' = now + 1
  /\ cache' = IF tokenCache = "ttl" THEN Evict(cache, now + 1) ELSE cache
  /\ written' = [k \in Tokens |-> IF cache'[k] = None THEN None ELSE written[k]]
  /\ UNCHANGED <<tokenCache, cacheTime, rq, obs>>

\* One step of the request in slot r.
Step(r) ==
  \/ \E h \in InboundRequests : Receive(r, h)
  \/ Lookup(r)
  \/ \E resp \in Responses(rq[r].authToken) : Validate(r, resp)
  \/ CacheWrite(r)
  \/ Delegate(r)
  \/ Finish(r)

\* The gate serving its requests one after the other, the clock advancing
\* between any two steps.
Next == Step(1) \/ Tick

Spec == Init /\ [][Next]_vars

\* The requests and answers of the concurrent runs: a planted X-User-Id beside
\* a header outside the identity set, with or without token; the authority
\* unreachable, or answering with one of two records of the token.
ConcurrentInbound ==
  { WithToken(ClientHeaders({"X-User-Id", "Accept"}), tk) :
      tk \in {None} \cup { Some(tk2) : tk2 \in Tokens } }

ConcurrentResponses(tk) ==
  { Response("do", StatusOK, Garbage) }
  \cup { Response("ok", StatusOK, Body(TRUE, FALSE, Some(tok))) :
           tok \in { BaseToken(tk),
                     Token(tk, [Project |-> Some(ProjectWithDomain), Domain |-> None],
                           Some(<<[ID |-> "r-member", Name |-> "member"]>>), 0, 3) } }

ConcurrentStep(r) ==
  \/ \E h \in ConcurrentInbound : Receive(r, h)
  \/ Lookup(r)
  \/ \E resp \in ConcurrentResponses(rq[r].authToken) : Validate(r, resp)
  \/ CacheWrite(r)
  \/ Delegate(r)
  \/ Finish(r)

\* The gate serving the requests of all slots at once, their steps
\* interleaved in any order, the clock advancing between any two steps.
NextConcurrent == (\E r \in Reqs : ConcurrentStep(r)) \/ Tick

SpecConcurrent == Init /\ [][NextConcurrent]_vars

\* ================================================================ properties
\* The downstream handler has been invoked for the request in slot r, with the
\* headers rq[r].header.
Delivered(r) == rq[r].pc = "done"

StatusOf(r) == Get(rq[r].header, "X-Identity-Status")

\* The headers that name a user, a project, a domain, a tenant or roles: the
\* identity-assertion set without the two status headers and the catalog.
IdentityHeaders ==
  AssertionHeaders \ {"X-Identity-Status", "X-Service-Identity-Status", "X-Service-Catalog"}

\* C1 (spoof protection): a request delivered without a valid token (no
\* identity record was obtained for it) carries X-Identity-Status = Invalid
\* and none of the other identity-assertion headers, X-Service-Catalog and
\* the deprecated names included.
C1_SpoofProtection ==
  \A r \in Reqs :
    Delivered(r) /\ rq[r].context = None =>
      /\ StatusOf(r) = "Invalid"
      /\ \A n \in AssertionHeaders \ {"X-Identity-Status"} : n \notin DOMAIN rq[r].header

\* An identity record was obtained for the request: the cache reported a hit,
\* or the validator was called and returned a record.
RecordObtained(r) ==
  \/ obs[r].hit
  \/ obs[r].resp # None /\ validate(obs[r].resp[1], obs[r].validAt[1]).tok # None

\* C2: when the downstream handler is invoked, X-Identity-Status is present
\* and is Confirmed or Invalid, and it is Confirmed exactly when an identity
\* record was obtained (cache hit or successful validator call).
C2_StatusIffRecord ==
  \A r \in Reqs :
    Delivered(r) =>
      /\ "X-Identity-Status" \in DOMAIN rq[r].header
      /\ StatusOf(r) \in {"Confirmed", "Invalid"}
      /\ StatusOf(r) = "Confirmed" <=> RecordObtained(r)

C2_Witness ==
  \E r \in Reqs :
    /\ Delivered(r) /\ obs[r].hit /\ StatusOf(r) = "Confirmed"
    /\ Get(rq[r].inbound, "X-Identity-Status") = "Confirmed"

\* C3 (exactly-once delegation): in every step, a request whose handler has
\* been invoked was delegated exactly once; a request still inside ServeHTTP
\* has not been delegated; a request only ends after having been delegated;
\* and every step that rewrites the headers of a request happens before its
\* delegation.
C3_DelegatedOnce ==
  [][\A r \in Reqs :
       /\ rq'[r].pc = "done" => obs'[r].nServe = 1
       /\ rq'[r].pc \notin {"done", "idle"} => obs'[r].nServe = 0
       /\ rq[r].pc # "idle" /\ rq'[r].pc = "idle" => rq[r].pc = "done" /\ obs[r].nServe = 1
       /\ rq'[r].header # rq[r].header /\ rq'[r].pc # "idle" => obs'[r].nServe = 0]_vars

C3_Witness ==
  \E r \in Reqs :
    /\ Delivered(r) /\ obs[r].nServe = 1
    /\ obs[r].nValidate = 1 /\ obs[r].lastSet # None
    /\ "X-User-Id" \in DOMAIN rq[r].header

ValidatorFailed(r) ==
  /\ obs[r].resp # None
  /\ LET resp == obs[r].resp[1]
     IN \/ rq[r].err # ""
        \/ resp.conn # "ok"
        \/ resp.status >= 400
        \/ ~resp.body.decodes
        \/ resp.body.error
        \/ resp.body.token = None
        \/ ~Valid(resp.body.token[1], obs[r].validAt[1])

\* C5 (validation failures never abort the request): after a failed validator
\* call the request goes to the downstream handler, exactly once, with
\* X-Identity-Status = Invalid, without any projected identity header and
\* without a cache Set.
C5_FailureStillDelegates ==
  \A r \in Reqs :
    ValidatorFailed(r) =>
      /\ rq[r].pc \in {"return", "done"}
      /\ Delivered(r) => obs[r].nServe = 1
      /\ StatusOf(r) = "Invalid"
      /\ DOMAIN rq[r].header \cap ProjectionHeaders = {}
      /\ rq[r].context = None
      /\ obs[r].nSet = 0 /\ obs[r].lastSet = None

C5_Witness ==
  \E r \in Reqs :
    /\ Delivered(r) /\ rq[r].err = "NotValid" /\ tokenCache = "ttl"
    /\ "X-User-Id" \in DOMAIN rq[r].inbound

\* C6 (staleness bound): with a cache that evicts on ttl, a request confirmed
\* from a cached record is confirmed at a clock reading before that record's
\* ExpiresAt, and the cache holds no entry whose record has expired.
C6_StalenessBound ==
  tokenCache = "ttl" =>
    /\ \A r \in Reqs :
         obs[r].hit => obs[r].confirmedAt[1] < rq[r].context[1].ExpiresAt
    /\ \A k \in Tokens :
         cache[k] # None => now < cache[k][1].value.ExpiresAt

C6_Witness ==
  \E r \in Reqs :
    /\ tokenCache = "ttl" /\ Delivered(r) /\ obs[r].hit
    /\ obs[r].confirmedAt[1] + 1 = rq[r].context[1].ExpiresAt

Min(a, b) == CHOOSE m \in {a, b} : m <= a /\ m <= b

\* C7 (cache ttl bound): every cache Set of the gate uses ttl =
\* min(CacheTime, ExpiresAt - now), now being the clock reading of the write;
\* the ttl exceeds neither CacheTime nor the validity left to the token.
C7_TtlIsMin ==
  \A r \in Reqs :
    /\ (obs[r].nSet > 0) <=> (obs[r].lastSet # None)
    /\ obs[r].lastSet # None =>
         LET set == obs[r].lastSet[1]
         IN /\ set.ttl = Min(cacheTime, set.value.ExpiresAt - set.at)
            /\ set.ttl <= cacheTime
            /\ set.ttl <= set.value.ExpiresAt - set.at

C7_Witness ==
  \E r \in Reqs :
    /\ obs[r].lastSet # None /\ cacheTime = ShortCacheTime
    /\ obs[r].lastSet[1].ttl < cacheTime
    /\ obs[r].lastSet[1].at > obs[r].validAt[1]

\* C8 (cache round-trip): a request whose token is in the cache when it is
\* looked up (written there by an earlier, validated request) makes no call
\* to the identity authority and is delegated with the same status and
\* projected headers as the request that wrote the entry.
C8_CacheRoundTrip ==
  \A r \in Reqs :
    obs[r].cachedAtGet =>
      /\ obs[r].nValidate = 0
      /\ rq[r].pc \in {"return", "done"}
      /\ obs[r].seen # None
      /\ Restrict(rq[r].header, GateHeaders) = obs[r].seen[1]
      /\ StatusOf(r) = "Confirmed"

C8_Witness ==
  \E r \in Reqs :
    /\ Delivered(r) /\ obs[r].cachedAtGet /\ obs[r].nGet = 1
    /\ "X-Project-Id" \in DOMAIN rq[r].header
    /\ "X-Project-Id" \notin DOMAIN rq[r].inbound

\* The failure kinds of the validator, by the check of validate that reports them.
KindOf(err) ==
  CASE err \in {"NewRequest", "Do"} -> "transport"
    [] err = "Status>=400" -> "status"
    [] err = "Decode" -> "body"
    [] err = "Error" -> "error object"
    [] err = "Status!=200" -> "status not 200"
    [] err = "NoToken" -> "token object"
    [] err = "NotValid" -> "window"
    [] OTHER -> "none"

\* C9 as claimed: the validator returns a record exactly when the transport
\* call succeeded, the status is below 400, the body decodes, there is no
\* error object, there is a token object and issuedAt <= now < expiresAt;
\* else the failure is the first of these conditions that is violated.
C9_AsClaimed ==
  \A r \in Reqs :
    obs[r].resp # None =>
      LET resp == obs[r].resp[1]
          t == obs[r].validAt[1]
          first == IF resp.conn # "ok" THEN "transport"
                   ELSE IF ~(resp.status < 400) THEN "status"
                   ELSE IF ~resp.body.decodes THEN "body"
                   ELSE IF resp.body.error THEN "error object"
                   ELSE IF resp.body.token = None THEN "token object"
                   ELSE IF ~(resp.body.token[1].IssuedAt <= t
                             /\ t < resp.body.token[1].ExpiresAt) THEN "window"
                   ELSE "none"
      IN /\ rq[r].err = "" <=> first = "none"
         /\ KindOf(rq[r].err) = first

\* C9 (validator classification, amended): the validator returns the record
\* of the envelope exactly when the transport call succeeded, the status is
\* 200, the body decodes, there is no error object, there is a token object
\* and, in whole seconds, issuedAt <= now < expiresAt; else the failure is the
\* first violated of: transport, status below 400, body decodes, no error
\* object, status is 200, token object present, validity window.
C9_ValidatorClassification ==
  \A r \in Reqs :
    obs[r].resp # None =>
      LET resp == obs[r].resp[1]
          t == obs[r].validAt[1]
          first == IF resp.conn # "ok" THEN "transport"
                   ELSE IF ~(resp.status < 400) THEN "status"
                   ELSE IF ~resp.body.decodes THEN "body"
                   ELSE IF resp.body.error THEN "error object"
                   ELSE IF resp.status # 200 THEN "status not 200"
                   ELSE IF resp.body.token = None THEN "token object"
                   ELSE IF ~(Unix(resp.body.token[1].IssuedAt) <= Unix(t)
                             /\ Unix(t) < Unix(resp.body.token[1].ExpiresAt)) THEN "window"
                   ELSE "none"
      IN /\ rq[r].err = "" <=> first = "none"
         /\ KindOf(rq[r].err) = first
         /\ first = "none" /\ ~obs[r].hit => rq[r].context = resp.body.token
         /\ first # "none" => rq[r].context = None

C9_Witness ==
  \E r \in Reqs :
    /\ obs[r].resp # None /\ obs[r].resp[1].status = 201
    /\ obs[r].resp[1].body = Body(TRUE, FALSE, Some(BaseToken(rq[r].authToken)))
    /\ rq[r].err = "Status!=200" /\ Delivered(r)

\* C10 (projection by scope): a request delivered with an identity record
\* carries the four X-User-* headers of the record; the four X-Project-*
\* headers exactly when the record has a project (the project-domain name
\* being that of the project's own domain object); X-Domain-Id and
\* X-Domain-Name exactly when the record has a domain; and a record with
\* neither project, domain nor roles yields no X-Project-*, X-Domain-* or
\* X-Roles header.
C10_ProjectionByScope ==
  \A r \in Reqs :
    Delivered(r) /\ rq[r].context # None =>
      LET tok == rq[r].context[1]
          h == rq[r].header
          projectNames == {"X-Project-Id", "X-Project-Name",
                           "X-Project-Domain-Id", "X-Project-Domain-Name"}
          domainNames == {"X-Domain-Id", "X-Domain-Name"}
      IN /\ Get(h, "X-User-Id") = tok.User.ID /\ "X-User-Id" \in DOMAIN h
         /\ Get(h, "X-User-Name") = tok.User.Name /\ "X-User-Name" \in DOMAIN h
         /\ Get(h, "X-User-Domain-Id") = tok.User.DomainID /\ "X-User-Domain-Id" \in DOMAIN h
         /\ Get(h, "X-User-Domain-Name") = tok.User.Domain.Name
         /\ "X-User-Domain-Name" \in DOMAIN h
         /\ IF tok.Project # None
            THEN /\ projectNames \subseteq DOMAIN h
                 /\ h["X-Project-Id"] = tok.Project[1].ID
                 /\ h["X-Project-Name"] = tok.Project[1].Name
                 /\ h["X-Project-Domain-Id"] = tok.Project[1].DomainID
                 /\ tok.Project[1].Domain # None =>
                      h["X-Project-Domain-Name"] = tok.Project[1].Domain[1].Name
            ELSE projectNames \cap DOMAIN h = {}
         /\ IF tok.Domain # None
            THEN /\ domainNames \subseteq DOMAIN h
                 /\ h["X-Domain-Id"] = tok.Domain[1].ID
                 /\ h["X-Domain-Name"] = tok.Domain[1].Name
            ELSE domainNames \cap DOMAIN h = {}
         /\ tok.Project = None /\ tok.Domain = None /\ tok.Roles = None =>
              "X-Roles" \notin DOMAIN h


\* C11 (roles projection): a request delivered with an identity record whose
\* roles field is present, the empty list included, carries X-Roles holding
\* the role names joined by single commas in the authority's order; one
\* whose roles field is absent carries no X-Roles header.
C11_RolesProjection ==
  \A r \in Reqs :
    Delivered(r) /\ rq[r].context # None =>
      LET tok == rq[r].context[1]
          h == rq[r].header
      IN IF tok.Roles # None
         THEN /\ "X-Roles" \in DOMAIN h
              /\ h["X-Roles"] = Join(RoleNames(tok.Roles[1]))
         ELSE "X-Roles" \notin DOMAIN h

\* C12 (scope exclusivity): every identity record a request is served with,
\* from the validator or from the cache, has at most one of project and
\* domain, and no request is delegated carrying both an X-Project-* header
\* and an X-Domain-Id or X-Domain-Name header.
C12_ScopeExclusivity ==
  \A r \in Reqs :
    /\ rq[r].context # None =>
         ~(rq[r].context[1].Project # None /\ rq[r].context[1].Domain # None)
    /\ Delivered(r) =>
         ~(/\ {"X-Project-Id", "X-Project-Name", "X-Project-Domain-Id",
               "X-Project-Domain-Name"} \cap DOMAIN rq[r].header # {}
           /\ {"X-Domain-Id", "X-Domain-Name"} \cap DOMAIN rq[r].header # {})

\* The request in slot r is past the cache and validator part of ServeHTTP.
Served(r) == rq[r].pc \in {"return", "done"}

\* C13 (no cache configured): with TokenCache nil, a request with a non-empty
\* token has made exactly one validation call by the time ServeHTTP returns
\* and never more than one, a request without token none, and no request
\* makes a cache Get or Set; the cache stays untouched.
C13_NoCacheValidatesEach ==
  tokenCache = "nil" =>
    /\ cache = EmptyCache
    /\ \A r \in Reqs :
         /\ obs[r].nGet = 0 /\ obs[r].nSet = 0 /\ ~obs[r].hit /\ obs[r].lastSet = None
         /\ obs[r].nValidate <= 1
         /\ Served(r) => obs[r].nValidate = IF rq[r].authToken = "" THEN 0 ELSE 1

C13_Witness ==
  \E r \in Reqs :
    /\ tokenCache = "nil" /\ Delivered(r) /\ rq[r].authToken = "t1"
    /\ obs[r].nValidate = 1 /\ obs[r].nGet = 0 /\ obs[r].nSet = 0
    /\ StatusOf(r) = "Confirmed"

\* The validator was called for the request in slot r and returned a record.
ValidatedRecord(r) ==
  IF obs[r].resp = None THEN None
  ELSE validate(obs[r].resp[1], obs[r].validAt[1]).tok

\* C14 (cache write): with a cache configured, a request whose token missed
\* the cache and was validated makes one Set whose key is the literal
\* X-Auth-Token value and whose value is the record the validator returned,
\* all fields alike, and the cache holds that entry under that key for as
\* long as the ttl handed to Set has not elapsed (the test's cache, which
\* ignores the ttl, from then on).  A request makes a Set only on that path:
\* none after a cache hit, without a token or after a failed validation.
C14_CacheWrite ==
  \A r \in Reqs :
    LET o == obs[r]
        onPath == /\ tokenCache # "nil" /\ rq[r].authToken # ""
                  /\ ~o.hit /\ o.nGet = 1 /\ o.nValidate = 1
                  /\ ValidatedRecord(r) # None
    IN /\ o.nSet <= 1
       /\ o.nSet = 1 <=> o.lastSet # None
       /\ o.nSet = 1 => onPath
       /\ Served(r) /\ onPath => o.nSet = 1
       /\ o.lastSet # None =>
            /\ o.lastSet[1].key = Get(rq[r].inbound, "X-Auth-Token")
            /\ o.lastSet[1].value = ValidatedRecord(r)[1]
            /\ (tokenCache = "mock" \/ now < o.lastSet[1].at + o.lastSet[1].ttl) =>
                 /\ cache[o.lastSet[1].key] # None
                 /\ cache[o.lastSet[1].key][1].value = ValidatedRecord(r)[1]

C14_Witness ==
  \E r \in Reqs :
    /\ tokenCache = "ttl" /\ Delivered(r) /\ obs[r].nSet = 1
    /\ rq[r].authToken = "t2" /\ Get(rq[r].inbound, "X-Auth-Token") = "t2"
    /\ cache["t2"] # None /\ cache["t2"][1].value.Project # None
    /\ cache["t2"][1].value = ValidatedRecord(r)[1]
    /\ cache["t1"] = None

C17_RequestIsolation ==
  \A r \in Reqs :
    LET own == Set(filterIncomingHeaders(rq[r].inbound), "X-Identity-Status", "Invalid")
    IN /\ obs[r].nServe = IF Delivered(r) THEN 1 ELSE 0
       /\ rq[r].authToken = Get(rq[r].inbound, "X-Auth-Token")
       /\ rq[r].context # None =>
            /\ rq[r].authToken # ""
            /\ rq[r].context[1].User = UserOf(rq[r].authToken)
       /\ Delivered(r) =>
            /\ rq[r].header = IF rq[r].context = None THEN own
                              ELSE Confirm(own, rq[r].context[1])
            /\ StatusOf(r) = "Confirmed" <=> rq[r].context # None
            /\ "X-User-Id" \in DOMAIN rq[r].header =>
                 rq[r].header["X-User-Id"] = UserOf(rq[r].authToken).ID

\* Two requests with different tokens in flight together, both delivered
\* Confirmed, one from the cache and one from the validator.
C17_Witness ==
  /\ Delivered(1) /\ Delivered(2)
  /\ rq[1].authToken = "t1" /\ rq[2].authToken = "t2"
  /\ obs[1].nSet = 1 /\ obs[2].hit
  /\ Get(rq[1].header, "X-User-Id") = "u-t1"
  /\ Get(rq[2].header, "X-User-Id") = "u-t2"
  /\ Get(rq[2].header, "X-Project-Id") # ""
  /\ Get(rq[1].header, "X-Project-Id") = ""

\* C18 (Confirmed implies identity present): a request delivered with
\* X-Identity-Status = Confirmed carries X-User-Id, X-User-Name,
\* X-User-Domain-Id and X-User-Domain-Name with the values of its record,
\* whatever the shape of the record, a project without domain object
\* included.
C18_ConfirmedImpliesIdentity ==
  \A r \in Reqs :
    Delivered(r) /\ StatusOf(r) = "Confirmed" =>
      /\ rq[r].context # None
      /\ {"X-User-Id", "X-User-Name", "X-User-Domain-Id", "X-User-Domain-Name"}
           \subseteq DOMAIN rq[r].header
      /\ rq[r].header["X-User-Id"] = rq[r].context[1].User.ID
      /\ rq[r].header["X-User-Name"] = rq[r].context[1].User.Name
      /\ rq[r].header["X-User-Domain-Id"] = rq[r].context[1].User.DomainID
      /\ rq[r].header["X-User-Domain-Name"] = rq[r].context[1].User.Domain.Name

\* C19 (positive ttl): every cache Set a request makes is handed a ttl
\* greater than zero, however much time passes between the validator's
\* clock reading and the one of the cache write.
C19_PositiveTTL ==
  \A r \in Reqs :
    obs[r].lastSet # None => obs[r].lastSet[1].ttl > 0

\* C20 (frame): at every point of ServeHTTP and at the downstream handler,
\* the headers of a request outside the identity-assertion set are those the
\* caller sent, X-Auth-Token included: none is removed, none has its value
\* changed, none is added.
C20_Frame ==
  \A r \in Reqs :
    rq[r].pc # "idle" =>
      Restrict(rq[r].header, DOMAIN rq[r].header \ AssertionHeaders)
        = Restrict(rq[r].inbound, DOMAIN rq[r].inbound \ AssertionHeaders)
====
